---- MODULE Spec2Model ----
(***************************************************************************)
(* Model of chat_analysis.py: the ChatAnalysisApp pipeline                 *)
(* (construct -> fetch -> format -> parse by date -> one completion call   *)
(* per date -> render -> sink) and ResultsHandler.post_as_file_to_slack.   *)
(*                                                                         *)
(* A Python string is a sequence of tokens.  A token is a record           *)
(* [k, d, t]: k is the character (or a literal chunk of text), and for the *)
(* token "ts", which stands for a well formed timestamp marker             *)
(* "(timestamp: YYYY-MM-DD HH:MM:SS)", d is the day number of the date and *)
(* t the second of the day.                                                *)
(***************************************************************************)
EXTENDS Integers, Sequences, FiniteSets, TLC

\* ------------------------------------------------------------------ bounds
MaxLines == 2       \* lines of the debug conversation file
MaxMsgs == 2        \* messages returned by one history fetch
MaxRenderDates == 3 \* dates of a report handed to format_analysis_results
MaxRoundTrip == 3   \* messages handed to format_slack_messages on its own
MaxParseLines == 3  \* lines of a text handed to parse_conversations_by_date on its own
MaxUploadDates == 2 \* dates of a report handed to post_as_file_to_slack

SecondsPerDay == 86400

\* ------------------------------------------------------------------ tokens
Lit(s) == [k |-> s, d |-> 0, t |-> 0]
Ts(d, t) == [k |-> "ts", d |-> d, t |-> t]
DateTok(d) == [k |-> "date", d |-> d, t |-> 0]

SP == Lit(" ")
NL == Lit("\n")
COLON == Lit(":")

\* [A-Z0-9]
IsUpper(tok) == tok.k \in {"U", "V", "0", "1"}
\* \s
IsSpace(tok) == tok.k \in {" ", "\n"}
\* \(timestamp:\s+(\d{4}-\d{2}-\d{2})\s+\d{2}:\d{2}:\d{2}\)
IsMarker(tok) == tok.k = "ts"

\* Python truthiness of an optional string: None and "" are falsy.
Truthy(v) == v \notin {"None", ""}
\* Python's  a or b
PyOr(a, b) == IF Truthy(a) THEN a ELSE b

\* ------------------------------------------------------------------ sequences
\* sep.join(parts)
RECURSIVE Join(_, _)
Join(parts, sep) ==
    IF parts = <<>> THEN <<>>
    ELSE IF Len(parts) = 1 THEN parts[1]
    ELSE parts[1] \o sep \o Join(Tail(parts), sep)

\* str.strip()
RECURSIVE LStrip(_)
LStrip(s) == IF s # <<>> /\ IsSpace(Head(s)) THEN LStrip(Tail(s)) ELSE s
RECURSIVE RStrip(_)
RStrip(s) == IF s # <<>> /\ IsSpace(s[Len(s)]) THEN RStrip(SubSeq(s, 1, Len(s) - 1)) ELSE s
Strip(s) == RStrip(LStrip(s))

\* ------------------------------------------------------------------ the regex
\* first index >= i at which the run of [A-Z0-9] stops
RECURSIVE UpperRunEnd(_, _)
UpperRunEnd(s, i) == IF i <= Len(s) /\ IsUpper(s[i]) THEN UpperRunEnd(s, i + 1) ELSE i
\* first index >= i at which the run of \s stops
RECURSIVE SpaceRunEnd(_, _)
SpaceRunEnd(s, i) == IF i <= Len(s) /\ IsSpace(s[i]) THEN SpaceRunEnd(s, i + 1) ELSE i

\* \s+\(timestamp: ...\) matches at e: a non-empty run of spaces, then a marker
MarkerAfterSpace(s, e) ==
    LET m == SpaceRunEnd(s, e) IN m > e /\ m <= Len(s) /\ IsMarker(s[m])

\* (.*?) started at p: the shortest body after which \s+ and the marker match;
\* 0 when there is none
RECURSIVE BodyEnd(_, _)
BodyEnd(s, e) ==
    IF e > Len(s) THEN 0
    ELSE IF MarkerAfterSpace(s, e) THEN e
    ELSE BodyEnd(s, e + 1)

\* the first \s+ is greedy: it takes w spaces, the longest w first
RECURSIVE TryWidth(_, _, _)
TryWidth(s, j, w) ==
    IF w < 1 THEN [ok |-> FALSE, p |-> 0, e |-> 0]
    ELSE LET p == j + 1 + w
             e == BodyEnd(s, p)
         IN IF e # 0 THEN [ok |-> TRUE, p |-> p, e |-> e]
            ELSE TryWidth(s, j, w - 1)

NoMatch == [ok |-> FALSE, user |-> <<>>, body |-> <<>>, d |-> 0, end |-> 0]

\* mutant: the colon after the speaker id is optional
MatchAtOptionalColon(s, i) ==
    LET u == UpperRunEnd(s, i)
        j == IF u <= Len(s) /\ s[u] = COLON THEN u ELSE u - 1
    IN
    IF ~(u > i /\ j < Len(s)) THEN NoMatch
    ELSE LET k == SpaceRunEnd(s, j + 1)
             r == TryWidth(s, j, k - j - 1)
         IN IF ~r.ok THEN NoMatch
            ELSE LET m == SpaceRunEnd(s, r.e)
                 IN [ok |-> TRUE,
                     user |-> SubSeq(s, i, u - 1),
                     body |-> SubSeq(s, r.p, r.e - 1),
                     d |-> s[m].d,
                     end |-> m + 1]

\* the pattern matched at position i of s
MatchAt(s, i) ==
    LET j == UpperRunEnd(s, i) IN
    IF ~(j > i /\ j <= Len(s) /\ s[j] = COLON) THEN NoMatch
    ELSE LET k == SpaceRunEnd(s, j + 1)
             r == TryWidth(s, j, k - j - 1)
         IN IF ~r.ok THEN NoMatch
            ELSE LET m == SpaceRunEnd(s, r.e)
                 IN [ok |-> TRUE,
                     user |-> SubSeq(s, i, j - 1),
                     body |-> SubSeq(s, r.p, r.e - 1),
                     d |-> s[m].d,
                     end |-> m + 1]

\* re.findall(pattern, text, re.DOTALL): leftmost non-overlapping matches
RECURSIVE FindAll(_, _)
FindAll(s, i) ==
    IF i > Len(s) THEN <<>>
    ELSE LET r == MatchAt(s, i)
         IN IF r.ok THEN <<r>> \o FindAll(s, r.end)
            ELSE FindAll(s, i + 1)

\* ------------------------------------------------------------------ dictionaries
\* A dict is the sequence of its items [key, val] in insertion order.
DictKeys(dict) == {dict[i].key : i \in 1..Len(dict)}
KeySeq(dict) == [i \in 1..Len(dict) |-> dict[i].key]
DictGet(dict, key) == (CHOOSE i \in 1..Len(dict) : dict[i].key = key)
DictVal(dict, key) == dict[DictGet(dict, key)].val
\* dict[key] = val
DictSet(dict, key, val) ==
    IF key \in DictKeys(dict)
    THEN [dict EXCEPT ![DictGet(dict, key)].val = val]
    ELSE Append(dict, [key |-> key, val |-> val])
\* mutant: the line is put at the front of the list
DictAppendFront(dict, key, line) ==
    IF key \in DictKeys(dict)
    THEN [dict EXCEPT ![DictGet(dict, key)].val = <<line>> \o @]
    ELSE Append(dict, [key |-> key, val |-> <<line>>])

\* defaultdict(list)[key].append(line)
DictAppend(dict, key, line) ==
    IF key \in DictKeys(dict)
    THEN [dict EXCEPT ![DictGet(dict, key)].val = Append(@, line)]
    ELSE Append(dict, [key |-> key, val |-> <<line>>])

\* sorted(keys)
RECURSIVE SortedSeq(_)
SortedSeq(S) ==
    IF S = {} THEN <<>>
    ELSE LET lo == CHOOSE x \in S : \A y \in S : x <= y
         IN <<lo>> \o SortedSeq(S \ {lo})

\* ------------------------------------------------------------------ MessageFormatter
RECURSIVE GroupMatches(_, _)
GroupMatches(matches, acc) ==
    IF matches = <<>> THEN acc
    ELSE LET r == Head(matches)
             formatted_message == r.user \o <<COLON, SP>> \o Strip(r.body)
         IN GroupMatches(Tail(matches), DictAppend(acc, r.d, formatted_message))

\* mutant: the bucket is seeded with an empty list for every date that occurs
\* in a timestamp marker of the text, matched or not
ParseSeeded(conversation_text) ==
    LET ds == SortedSeq({conversation_text[i].d :
                          i \in {n \in 1..Len(conversation_text) : IsMarker(conversation_text[n])}})
    IN GroupMatches(FindAll(conversation_text, 1),
                    [i \in 1..Len(ds) |-> [key |-> ds[i], val |-> <<>>]])

parse_conversations_by_date(conversation_text) ==
    GroupMatches(FindAll(conversation_text, 1), <<>>)

\* datetime.fromtimestamp(ts).strftime('%Y-%m-%d %H:%M:%S') in a zone that is
\* tz seconds ahead of UTC
ReadableTime(ts, tz) == Ts((ts + tz) \div SecondsPerDay, (ts + tz) % SecondsPerDay)

\* A raw message: user, ts and text may each be missing; ts is numeric or not.
Eligible(message) == message.hasUser /\ message.hasTs

FormatOne(message, tz) ==
    message.user \o <<COLON, SP>>
        \o (IF message.hasText THEN message.text ELSE <<>>)
        \o <<SP>> \o <<ReadableTime(message.ts, tz)>>

RECURSIVE SelectEligible(_)
SelectEligible(messages) ==
    IF messages = <<>> THEN <<>>
    ELSE (IF Eligible(Head(messages)) THEN <<Head(messages)>> ELSE <<>>)
            \o SelectEligible(Tail(messages))

\* float(message['ts']) raises ValueError on a non-numeric timestamp
FormatRaises(messages) ==
    \E i \in 1..Len(messages) : Eligible(messages[i]) /\ ~messages[i].tsNumeric

format_slack_messages(messages, tz) ==
    LET el == SelectEligible(messages)
    IN Join([i \in 1..Len(el) |-> FormatOne(el[i], tz)], <<NL>>)

\* the literals of the source are Japanese; the module keeps ASCII stand-ins
ResultsHeader == Lit("=== emotion analysis by date ===\n")
RawHeader == Lit("=== conversation data by date ===\n")
DateLabel == Lit("\nDate: ")

RECURSIVE RenderDates(_, _)
RenderDates(dates, emotion_analysis) ==
    IF dates = <<>> THEN <<>>
    ELSE <<DateLabel, DateTok(Head(dates)), NL>>
            \o DictVal(emotion_analysis, Head(dates)) \o <<NL>>
            \o RenderDates(Tail(dates), emotion_analysis)

\* mutant: the dates are rendered in the insertion order of the dictionary
FormatUnsorted(emotion_analysis) ==
    <<ResultsHeader>> \o RenderDates(KeySeq(emotion_analysis), emotion_analysis)

format_analysis_results(emotion_analysis) ==
    <<ResultsHeader>> \o RenderDates(SortedSeq(DictKeys(emotion_analysis)), emotion_analysis)

RECURSIVE RenderRaw(_, _)
RenderRaw(dates, conversations_by_date) ==
    IF dates = <<>> THEN <<>>
    ELSE <<DateLabel, DateTok(Head(dates)), NL>>
            \o Join(DictVal(conversations_by_date, Head(dates)), <<NL>>) \o <<NL>>
            \o RenderRaw(Tail(dates), conversations_by_date)

format_raw_conversations(conversations_by_date) ==
    <<RawHeader>> \o RenderRaw(SortedSeq(DictKeys(conversations_by_date)), conversations_by_date)

\* the date headings of a rendered text
DateHeadings(content) ==
    {content[i + 1].d : i \in {n \in 1..(Len(content) - 1) :
                                 content[n] = DateLabel /\ content[n + 1].k = "date"}}

\* ------------------------------------------------------------------ configuration
Keys == {"openai_api_key", "slack_api_token", "source_channel_id", "target_channel_id"}
EnvNames == {"OPENAI_API_KEY", "SLACK_API_TOKEN", "SOURCE_CHANNEL_ID", "TARGET_CHANNEL_ID"}
EnvName(key) ==
    CASE key = "openai_api_key" -> "OPENAI_API_KEY"
      [] key = "slack_api_token" -> "SLACK_API_TOKEN"
      [] key = "source_channel_id" -> "SOURCE_CHANNEL_ID"
      [] key = "target_channel_id" -> "TARGET_CHANNEL_ID"

\* a configuration value: missing or None, the empty string, or a value
Val == {"None", "", "k"}
\* os.getenv: unset or set
EnvVal == {"None", "k"}

DEBUG_CONVERSATION_FILE == "debug/conversation_history.txt"
DEBUG_RESULT_FILE == "debug/result.txt"
TempFile == "analysis_results.txt"
Paths == {DEBUG_RESULT_FILE, TempFile}

\* self.config = config or {...os.getenv...}
SelfConfig(arg, e) ==
    IF arg.given THEN arg.d ELSE [key \in Keys |-> e[EnvName(key)]]

\* mutant: a key counts as missing only when it is None, not when it is empty
MissingKeysNoneOnly(cfg) == {key \in Keys : cfg[key] = "None"}

\* mutant: only the three messaging values are required for live mode
MissingKeysNoOpenAI(cfg) == {key \in Keys \ {"openai_api_key"} : ~Truthy(cfg[key])}

\* missing_keys = [key for key in required_keys if not self.config.get(key)]
MissingKeys(cfg) == {key \in Keys : ~Truthy(cfg[key])}

\* self.debug_mode = len(missing_keys) > 0
DebugMode(cfg) == Cardinality(MissingKeys(cfg)) > 0

\* OpenAIClient.__init__: self.api_key = api_key or os.getenv("OPENAI_API_KEY")
ApiKey(cfg, e) == PyOr(cfg["openai_api_key"], e["OPENAI_API_KEY"])

\* mutant: the analyzer is built whether or not there is a key
AnalyzerAlways(cfg, e, created) == "EmotionAnalyzer"

\* OpenAIClient raises ValueError without a key; with a key it calls
\* OpenAI(api_key=...), which returns a client (created) or raises ValueError;
\* "except ValueError" leaves the app with no client and so with no analyzer
Analyzer(cfg, e, created) ==
    IF Truthy(ApiKey(cfg, e)) /\ created THEN "EmotionAnalyzer" ELSE "None"

\* SlackClient.__init__: self.token = token or os.getenv("SLACK_API_TOKEN")
SlackToken(cfg, e) == PyOr(cfg["slack_api_token"], e["SLACK_API_TOKEN"])

\* ------------------------------------------------------------------ inputs
SeqsUpTo(S, n) == UNION {[1..m -> S] : m \in 0..n}

U == Lit("U")
V == Lit("V")
X == Lit("x")

\* lines of a debug conversation file: two conforming lines on different
\* dates, a line without a marker, a line without a colon, an empty body
LineKinds ==
    { <<U, COLON, SP, X, SP, Ts(1, 100)>>,
      <<V, COLON, SP, X, SP, Ts(2, 50)>>,
      <<U, COLON, SP, X>>,
      <<U, SP, X, SP, Ts(1, 100)>>,
      <<V, COLON, SP, SP, Ts(2, 50)>> }

DebugTexts == {Join(ls, <<NL>>) : ls \in SeqsUpTo(LineKinds, MaxLines)}

\* records of a channel history
Msg(hasUser, user, hasTs, tsNumeric, ts, hasText) ==
    [hasUser |-> hasUser, user |-> user, hasTs |-> hasTs, tsNumeric |-> tsNumeric,
     ts |-> ts, hasText |-> hasText, text |-> <<X>>]

MsgKinds ==
    { Msg(TRUE, <<U>>, TRUE, TRUE, SecondsPerDay + 80000, TRUE),
      Msg(TRUE, <<V>>, TRUE, TRUE, 2 * SecondsPerDay + 100, TRUE),
      Msg(FALSE, <<>>, TRUE, TRUE, SecondsPerDay + 80000, TRUE),
      Msg(TRUE, <<U>>, FALSE, TRUE, 0, TRUE),
      Msg(TRUE, <<U>>, TRUE, FALSE, 0, TRUE),
      Msg(TRUE, <<V>>, TRUE, TRUE, 2 * SecondsPerDay + 100, FALSE) }

MsgLists == SeqsUpTo(MsgKinds, MaxMsgs)

\* offsets of the local time zone from UTC, in seconds
TzOffsets == {0, 32400}

\* what a completion call does: it returns a text or raises with an error text
CompletionOutcomes ==
    { [ok |-> TRUE, text |-> <<Lit("POS")>>],
      [ok |-> TRUE, text |-> <<Lit("NEG")>>],
      [ok |-> FALSE, text |-> <<Lit("timeout")>>] }
\* the error marker f"...: {e}" of analyze_emotions_by_date
ErrorMarker(e) == <<Lit("analysis error: ")>> \o e

\* ------------------------------------------------------------------ state
VARIABLES
    env,                    \* os.environ
    config_arg,             \* the config argument of ChatAnalysisApp
    config,                 \* self.config
    debug_mode,             \* self.debug_mode
    analyzer,               \* self.analyzer: "None" or "EmotionAnalyzer"
    slack_client,           \* ResultsHandler.slack_client: "None" or "SlackClient"
    slack_token,            \* SlackClient.token
    pc,                     \* position of the control flow
    conversation_text,      \* the text handed to the parser
    conversations_by_date,  \* the bucket
    emotion_analysis,       \* the report
    todo,                   \* dates the loop of analyze_emotions_by_date has not reached
    results_content,        \* the rendered text; the content argument of the sink
    calls,                  \* external operations performed, in order
    disk,                   \* the files the program writes
    caught,                 \* where an exception was caught: "none", "run", "main", "handler"
    run_result,             \* what run returned: "none", "True", "False"
    exit_code,              \* what main returned; -1 before it returns
    result,                 \* local result of post_as_file_to_slack
    returned,               \* what post_as_file_to_slack returned
    slack_messages,         \* the messages argument of format_slack_messages
    utc_offset,             \* offset of the local time zone, in seconds
    lines,                  \* the lines a conversation text is made of
    drop,                   \* index of a line of the text; 0 for none
    other_bucket,           \* the bucket of the text without the line drop
    other_report,           \* the mapping of the report, inserted in another order
    other_content,          \* the rendering of other_report
    again_content           \* a second rendering of the report

vars == <<env, config_arg, config, debug_mode, analyzer, slack_client, slack_token, pc,
          conversation_text, conversations_by_date, emotion_analysis, todo,
          results_content, calls, disk, caught, run_result, exit_code, result, returned,
          slack_messages, utc_offset, lines, drop, other_bucket, other_report, other_content,
          again_content>>

appVars == <<config, debug_mode, analyzer, slack_client, slack_token>>
\* arguments and results of the functions of MessageFormatter applied on their own
pureVars == <<slack_messages, utc_offset, lines, drop, other_bucket, other_report, other_content,
              again_content>>
inputVars == <<env, config_arg, pureVars>>
uploadVars == <<result, returned>>

\* an external operation: its argument (path, channel or prompt date), whether
\* it succeeded, and the text it returned or raised
Event(op, arg, d, ok) == [op |-> op, arg |-> arg, d |-> d, ok |-> ok, out |-> <<>>]
CompletionEvent(d, o) == [op |-> "completion", arg |-> "prompt", d |-> d, ok |-> o.ok, out |-> o.text]
NoFile == [exists |-> FALSE, data |-> <<>>]
Bool(b) == IF b THEN "True" ELSE "False"

\* what a write of a file does: it succeeds, or makedirs/open raises, or
\* open has created or truncated the file and write or close raises
WriteOutcomes == {"ok", "open_fails", "write_fails"}
\* how much of the content has reached the file when the write returns or
\* raises: all of it, nothing, or a proper prefix (a full disk, a size
\* limit). A token is the unit of the strings here: a cut inside a token is
\* the prefix that ends before that token.
KeptLengths(content, outcome) ==
    IF outcome = "ok" THEN {Len(content)}
    ELSE IF outcome = "write_fails" THEN 0..(Len(content) - 1)
    ELSE {0}

\* with open(path, 'w') as file: file.write(content)
WriteFile(dk, path, content, outcome, kept) ==
    IF outcome = "open_fails" THEN dk
    ELSE [dk EXCEPT ![path] = [exists |-> TRUE, data |-> SubSeq(content, 1, kept)]]

\* os.remove(path)
RemoveFile(dk, path) == [dk EXCEPT ![path] = NoFile]

PureIdle ==
    /\ slack_messages = <<>>
    /\ utc_offset = 0
    /\ lines = <<>>
    /\ drop = 0
    /\ other_bucket = <<>>
    /\ other_report = <<>>
    /\ other_content = <<>>
    /\ again_content = <<>>

InitRest ==
    /\ PureIdle
    /\ config = [key \in Keys |-> "None"]
    /\ debug_mode = FALSE
    /\ analyzer = "None"
    /\ conversation_text = <<>>
    /\ conversations_by_date = <<>>
    /\ emotion_analysis = <<>>
    /\ todo = <<>>
    /\ calls = <<>>
    /\ disk = [p \in Paths |-> NoFile]
    /\ caught = "none"
    /\ run_result = "none"
    /\ exit_code = -1
    /\ result = "none"
    /\ returned = "none"

\* main() is entered: the environment is set, and the app is built either from
\* the environment (config falsy) or from a configuration dictionary
Init ==
    /\ pc = "start"
    /\ env \in [EnvNames -> EnvVal]
    /\ config_arg \in [given : BOOLEAN, d : [Keys -> Val]]
    /\ ~config_arg.given => config_arg.d = [key \in Keys |-> "None"]
    /\ slack_client = "None"
    /\ slack_token = "None"
    /\ results_content = <<>>
    /\ InitRest

\* ------------------------------------------------------------------ ChatAnalysisApp.__init__
Construct ==
    /\ pc = "start"
    /\ \E created \in BOOLEAN :
        LET cfg == SelfConfig(config_arg, env) IN
        /\ config' = cfg
        /\ debug_mode' = DebugMode(cfg)
        /\ analyzer' = Analyzer(cfg, env, created)
        /\ slack_token' = SlackToken(cfg, env)
    /\ slack_client' = "SlackClient"
    /\ pc' = "constructed"
    /\ UNCHANGED <<inputVars, conversation_text, conversations_by_date, emotion_analysis,
                   todo, results_content, calls, disk, caught, run_result, exit_code,
                   uploadVars>>

\* os.chdir or a client constructor raises something other than the
\* ValueError of the OpenAI client: main's except returns 1
ConstructRaises ==
    /\ pc = "start"
    /\ caught' = "main"
    /\ exit_code' = 1
    /\ pc' = "exited"
    /\ UNCHANGED <<inputVars, appVars, conversation_text, conversations_by_date,
                   emotion_analysis, todo, results_content, calls, disk, run_result,
                   uploadVars>>

\* ------------------------------------------------------------------ ChatAnalysisApp.run
\* an exception inside run: logged, run returns False
RunCatches ==
    /\ caught' = "run"
    /\ run_result' = "False"
    /\ pc' = "run_returned"

\* _get_conversation_data in debug mode: read_conversation_from_file returns
\* the text of the file, or "" when the read fails
ReadDebugFile ==
    /\ pc = "constructed"
    /\ debug_mode
    /\ \E readOk \in BOOLEAN : \E text \in (IF readOk THEN DebugTexts ELSE {<<>>}) :
        /\ calls' = Append(calls, Event("read_file", DEBUG_CONVERSATION_FILE, 0, readOk))
        /\ conversation_text' = text
        /\ conversations_by_date' =
              IF text = <<>> THEN <<>> ELSE parse_conversations_by_date(text)
    /\ pc' = "fetched"
    /\ UNCHANGED <<inputVars, appVars, emotion_analysis, todo, results_content, disk,
                   caught, run_result, exit_code, uploadVars>>

\* _get_conversation_data in live mode: one conversations_history call, then
\* format_slack_messages and the parser
FetchFromSlack ==
    /\ pc = "constructed"
    /\ ~debug_mode
    /\ IF ~Truthy(slack_token)
       THEN \* fetch_conversation_history returns None without a call
            /\ pc' = "fetched"
            /\ UNCHANGED <<calls, conversation_text, conversations_by_date, caught, run_result>>
       ELSE \E outcome \in {"ok", "SlackApiError", "Exception"} :
              \E messages \in (IF outcome = "ok" THEN MsgLists ELSE {<<>>}) :
              \E tz \in (IF outcome = "ok" /\ messages # <<>> THEN TzOffsets ELSE {0}) :
                /\ calls' = Append(calls, Event("fetch_history", "source_channel_id", 0,
                                                 outcome = "ok"))
                /\ IF outcome = "Exception" \/ FormatRaises(messages)
                   THEN /\ RunCatches
                        /\ UNCHANGED <<conversation_text, conversations_by_date>>
                   ELSE /\ pc' = "fetched"
                        /\ conversation_text' = format_slack_messages(messages, tz)
                        /\ conversations_by_date' =
                              IF messages = <<>> THEN <<>>
                              ELSE parse_conversations_by_date(format_slack_messages(messages, tz))
                        /\ UNCHANGED <<caught, run_result>>
    /\ UNCHANGED <<inputVars, appVars, emotion_analysis, todo, results_content, disk,
                   exit_code, uploadVars>>

\* mutant: the empty bucket is not checked and the run goes on
ReturnNoDataSkipped ==
    /\ pc = "fetched"
    /\ conversations_by_date = <<>>
    /\ IF analyzer = "None"
       THEN /\ run_result' = "False"
            /\ pc' = "run_returned"
            /\ UNCHANGED <<emotion_analysis, todo>>
       ELSE /\ emotion_analysis' = <<>>
            /\ todo' = <<>>
            /\ pc' = "analyzing"
            /\ UNCHANGED run_result
    /\ UNCHANGED <<inputVars, appVars, conversation_text, conversations_by_date,
                   results_content, calls, disk, caught, exit_code, uploadVars>>

\* if not conversations_by_date: return False
ReturnNoData ==
    /\ pc = "fetched"
    /\ conversations_by_date = <<>>
    /\ run_result' = "False"
    /\ pc' = "run_returned"
    /\ UNCHANGED <<inputVars, appVars, conversation_text, conversations_by_date,
                   emotion_analysis, todo, results_content, calls, disk, caught,
                   exit_code, uploadVars>>

\* mutant: the raw dump reports success whatever save_to_file returned
NoAnalyzerAlwaysTrue ==
    /\ pc = "fetched"
    /\ conversations_by_date # <<>>
    /\ analyzer = "None"
    /\ IF debug_mode
       THEN LET raw_content == format_raw_conversations(conversations_by_date) IN
            \E outcome \in WriteOutcomes, printed \in BOOLEAN :
            \E kept \in KeptLengths(raw_content, outcome) :
              LET success == (outcome = "ok")
              IN
                /\ results_content' = raw_content
                /\ calls' = Append(calls, Event("write_file", DEBUG_RESULT_FILE, 0, success))
                /\ disk' = WriteFile(disk, DEBUG_RESULT_FILE, raw_content, outcome, kept)
                /\ IF success /\ ~printed
                   THEN RunCatches
                   ELSE /\ run_result' = "True"
                        /\ pc' = "run_returned"
                        /\ UNCHANGED caught
       ELSE /\ run_result' = "False"
            /\ pc' = "run_returned"
            /\ UNCHANGED <<results_content, calls, disk, caught>>
    /\ UNCHANGED <<inputVars, appVars, conversation_text, conversations_by_date,
                   emotion_analysis, todo, exit_code, uploadVars>>

\* no analyzer: in debug mode dump the raw conversations, otherwise return
\* False; the print of the success message is inside run's try, so when it
\* raises run returns False through its except
NoAnalyzer ==
    /\ pc = "fetched"
    /\ conversations_by_date # <<>>
    /\ analyzer = "None"
    /\ IF debug_mode
       THEN LET raw_content == format_raw_conversations(conversations_by_date) IN
            \E outcome \in WriteOutcomes, printed \in BOOLEAN :
            \E kept \in KeptLengths(raw_content, outcome) :
              LET success == (outcome = "ok")
              IN
                /\ results_content' = raw_content
                /\ calls' = Append(calls, Event("write_file", DEBUG_RESULT_FILE, 0, success))
                /\ disk' = WriteFile(disk, DEBUG_RESULT_FILE, raw_content, outcome, kept)
                /\ IF success /\ ~printed
                   THEN RunCatches
                   ELSE /\ run_result' = Bool(success)
                        /\ pc' = "run_returned"
                        /\ UNCHANGED caught
       ELSE /\ run_result' = "False"
            /\ pc' = "run_returned"
            /\ UNCHANGED <<results_content, calls, disk, caught>>
    /\ UNCHANGED <<inputVars, appVars, conversation_text, conversations_by_date,
                   emotion_analysis, todo, exit_code, uploadVars>>

\* analyze_emotions_by_date is entered: emotion_analysis = {}
StartAnalysis ==
    /\ pc = "fetched"
    /\ conversations_by_date # <<>>
    /\ analyzer # "None"
    /\ emotion_analysis' = <<>>
    /\ todo' = KeySeq(conversations_by_date)
    /\ pc' = "analyzing"
    /\ UNCHANGED <<inputVars, appVars, conversation_text, conversations_by_date,
                   results_content, calls, disk, caught, run_result, exit_code, uploadVars>>

\* mutant: the error marker does not embed the error text
AnalysisEntryNoText(o) == IF o.ok THEN o.text ELSE <<Lit("analysis error: ")>>

\* the entry of the report for a date whose completion call returned or raised
AnalysisEntry(o) == IF o.ok THEN o.text ELSE ErrorMarker(o.text)

\* mutant: a date whose call raised is tried once more before the marker is kept
AnalyzeDateRetry ==
    /\ pc = "analyzing"
    /\ todo # <<>>
    /\ \E o \in CompletionOutcomes :
        LET date == Head(todo)
            tried == \E i \in 1..Len(calls) : calls[i].op = "completion" /\ calls[i].d = date
        IN
          /\ calls' = Append(calls, CompletionEvent(date, o))
          /\ emotion_analysis' = DictSet(emotion_analysis, date, AnalysisEntry(o))
          /\ todo' = IF ~o.ok /\ ~tried THEN todo ELSE Tail(todo)
    /\ UNCHANGED <<inputVars, appVars, pc, conversation_text, conversations_by_date,
                   results_content, disk, caught, run_result, exit_code, uploadVars>>

\* one iteration of the loop of analyze_emotions_by_date
AnalyzeDate ==
    /\ pc = "analyzing"
    /\ todo # <<>>
    /\ \E o \in CompletionOutcomes :
        LET date == Head(todo) IN
          /\ calls' = Append(calls, CompletionEvent(date, o))
          /\ emotion_analysis' = DictSet(emotion_analysis, date, AnalysisEntry(o))
    /\ todo' = Tail(todo)
    /\ UNCHANGED <<inputVars, appVars, pc, conversation_text, conversations_by_date,
                   results_content, disk, caught, run_result, exit_code, uploadVars>>

\* the loop is over: results_content = format_analysis_results(emotion_analysis)
FormatResults ==
    /\ pc = "analyzing"
    /\ todo = <<>>
    /\ results_content' = format_analysis_results(emotion_analysis)
    /\ pc' = "formatted"
    /\ UNCHANGED <<inputVars, appVars, conversation_text, conversations_by_date,
                   emotion_analysis, todo, calls, disk, caught, run_result, exit_code,
                   uploadVars>>

\* mutant: the sink is chosen by the presence of the token, not by the mode
SinkIsFileByToken(dbg, token) == ~Truthy(token)

\* _output_results, "if self.debug_mode:": the sink is the debug file exactly
\* in debug mode, whatever the token
SinkIsFile(dbg, token) == dbg

AllCompletionsOk == \A i \in 1..Len(calls) : calls[i].op = "completion" => calls[i].ok

\* mutant: the run reports failure when a completion call has failed
OutputResultsFailOnError ==
    /\ pc = "formatted"
    /\ IF SinkIsFile(debug_mode, slack_token)
       THEN \E outcome \in WriteOutcomes, printed \in BOOLEAN :
            \E kept \in KeptLengths(results_content, outcome) :
              /\ calls' = Append(calls, Event("write_file", DEBUG_RESULT_FILE, 0,
                                               outcome = "ok"))
              /\ disk' = WriteFile(disk, DEBUG_RESULT_FILE, results_content, outcome, kept)
              /\ IF outcome = "ok" /\ ~printed
                 THEN RunCatches
                 ELSE /\ run_result' = Bool(outcome = "ok" /\ AllCompletionsOk)
                      /\ pc' = "run_returned"
                      /\ UNCHANGED caught
       ELSE IF slack_client = "None" \/ ~Truthy(slack_token)
       THEN /\ run_result' = "False"
            /\ pc' = "run_returned"
            /\ UNCHANGED <<calls, disk, caught>>
       ELSE \E outcome \in {"ok", "SlackApiError", "Exception"}, printed \in BOOLEAN :
              /\ calls' = Append(calls, Event("post_message", "target_channel_id", 0,
                                               outcome = "ok"))
              /\ IF outcome = "Exception" \/ (outcome = "ok" /\ ~printed)
                 THEN RunCatches
                 ELSE /\ run_result' = Bool(outcome = "ok" /\ AllCompletionsOk)
                      /\ pc' = "run_returned"
                      /\ UNCHANGED caught
              /\ UNCHANGED disk
    /\ UNCHANGED <<inputVars, appVars, conversation_text, conversations_by_date,
                   emotion_analysis, todo, results_content, exit_code, uploadVars>>

\* _output_results: save_to_file in debug mode, post_to_slack in live mode;
\* the print of the success message is inside run's try, so when it raises
\* run returns False through its except
OutputResults ==
    /\ pc = "formatted"
    /\ IF SinkIsFile(debug_mode, slack_token)
       THEN \E outcome \in WriteOutcomes, printed \in BOOLEAN :
            \E kept \in KeptLengths(results_content, outcome) :
              /\ calls' = Append(calls, Event("write_file", DEBUG_RESULT_FILE, 0,
                                               outcome = "ok"))
              /\ disk' = WriteFile(disk, DEBUG_RESULT_FILE, results_content, outcome, kept)
              /\ IF outcome = "ok" /\ ~printed
                 THEN RunCatches
                 ELSE /\ run_result' = Bool(outcome = "ok")
                      /\ pc' = "run_returned"
                      /\ UNCHANGED caught
       ELSE IF slack_client = "None" \/ ~Truthy(slack_token)
       THEN /\ run_result' = "False"
            /\ pc' = "run_returned"
            /\ UNCHANGED <<calls, disk, caught>>
       ELSE \E outcome \in {"ok", "SlackApiError", "Exception"}, printed \in BOOLEAN :
              /\ calls' = Append(calls, Event("post_message", "target_channel_id", 0,
                                               outcome = "ok"))
              /\ IF outcome = "Exception" \/ (outcome = "ok" /\ ~printed)
                 THEN RunCatches
                 ELSE /\ run_result' = Bool(outcome = "ok")
                      /\ pc' = "run_returned"
                      /\ UNCHANGED caught
              /\ UNCHANGED disk
    /\ UNCHANGED <<inputVars, appVars, conversation_text, conversations_by_date,
                   emotion_analysis, todo, results_content, exit_code, uploadVars>>

\* ------------------------------------------------------------------ main
\* mutant: main returns 0 whatever run returned
ExitCodeZero(success) == 0

\* return 0 if success else 1
ExitCode(success) == IF success = "True" THEN 0 ELSE 1

MainReturn ==
    /\ pc = "run_returned"
    /\ exit_code' = ExitCode(run_result)
    /\ pc' = "exited"
    /\ UNCHANGED <<inputVars, appVars, conversation_text, conversations_by_date,
                   emotion_analysis, todo, results_content, calls, disk, caught,
                   run_result, uploadVars>>

Next ==
    \/ Construct
    \/ ConstructRaises
    \/ ReadDebugFile
    \/ FetchFromSlack
    \/ ReturnNoData
    \/ NoAnalyzer
    \/ StartAnalysis
    \/ AnalyzeDate
    \/ FormatResults
    \/ OutputResults
    \/ MainReturn

Spec == Init /\ [][Next]_vars

\* ------------------------------------------------------------------ ResultsHandler.post_as_file_to_slack
\* the reports over the dates 1..MaxUploadDates
UploadReports ==
    UNION { [D -> {<<Lit("POS")>>, ErrorMarker(<<Lit("timeout")>>)}] :
            D \in SUBSET (1..MaxUploadDates) }
ReportDict(f) ==
    LET ks == SortedSeq(DOMAIN f) IN [i \in 1..Len(ks) |-> [key |-> ks[i], val |-> f[ks[i]]]]
UploadContents == {format_analysis_results(ReportDict(f)) : f \in UploadReports}

\* a ResultsHandler built with no client, or with a SlackClient with or
\* without a token, is asked to post a rendered report as a file
InitUpload ==
    /\ pc = "h_start"
    /\ env = [n \in EnvNames |-> "None"]
    /\ config_arg = [given |-> FALSE, d |-> [key \in Keys |-> "None"]]
    /\ slack_client \in {"None", "SlackClient"}
    /\ InitRest
    /\ \E tok \in Val : slack_token = tok /\ (slack_client = "None" => tok = "None")
    /\ results_content \in UploadContents

\* mutant: upload_file lets the exception of files_upload_v2 through
upload_file_nocatch(token, api) ==
    IF ~Truthy(token) THEN "False"
    ELSE IF api = "ok" THEN "True"
    ELSE "raise"

\* SlackClient.upload_file: False without a token; otherwise one
\* files_upload_v2 call, whose exception is caught and turned into False
upload_file(token, api) ==
    IF ~Truthy(token) THEN "False"
    ELSE IF api = "ok" THEN "True"
    ELSE "False"

\* if not self.slack_client: return False; else write the temporary file;
\* an exception of open or write lands in the except: return False
PostWriteTemp ==
    /\ pc = "h_start"
    /\ IF slack_client = "None"
       THEN /\ returned' = "False"
            /\ pc' = "h_returned"
            /\ UNCHANGED <<disk, calls, caught>>
       ELSE \E outcome \in WriteOutcomes :
            \E kept \in KeptLengths(results_content, outcome) :
              /\ calls' = Append(calls, Event("write_file", TempFile, 0, outcome = "ok"))
              /\ disk' = WriteFile(disk, TempFile, results_content, outcome, kept)
              /\ IF outcome = "ok"
                 THEN /\ pc' = "h_written"
                      /\ UNCHANGED <<returned, caught>>
                 ELSE /\ caught' = "handler"
                      /\ returned' = "False"
                      /\ pc' = "h_returned"
    /\ UNCHANGED <<inputVars, appVars, conversation_text, conversations_by_date,
                   emotion_analysis, todo, results_content, run_result,
                   exit_code, result>>

\* result = self.slack_client.upload_file(...); an exception leaving
\* upload_file lands in the except of post_as_file_to_slack
PostUpload ==
    /\ pc = "h_written"
    /\ \E api \in (IF Truthy(slack_token) THEN {"ok", "raise"} ELSE {"none"}) :
        LET r == upload_file(slack_token, api) IN
          /\ calls' = IF api = "none" THEN calls
                       ELSE Append(calls, Event("upload_file", TempFile, 0, api = "ok"))
          /\ IF r = "raise"
             THEN /\ caught' = "handler"
                  /\ returned' = "False"
                  /\ pc' = "h_returned"
                  /\ UNCHANGED result
             ELSE /\ result' = r
                  /\ pc' = "h_uploaded"
                  /\ UNCHANGED <<caught, returned>>
    /\ UNCHANGED <<inputVars, appVars, conversation_text, conversations_by_date,
                   emotion_analysis, todo, results_content, disk, run_result, exit_code>>

\* os.remove(temp_file_path); return result; when os.remove raises, the file
\* stays and the except returns False whatever upload_file returned
PostRemove ==
    /\ pc = "h_uploaded"
    /\ \E removed \in BOOLEAN :
          /\ calls' = Append(calls, Event("remove_file", TempFile, 0, removed))
          /\ IF removed
             THEN /\ disk' = RemoveFile(disk, TempFile)
                  /\ returned' = result
                  /\ UNCHANGED caught
             ELSE /\ caught' = "handler"
                  /\ returned' = "False"
                  /\ UNCHANGED disk
    /\ pc' = "h_returned"
    /\ UNCHANGED <<inputVars, appVars, conversation_text, conversations_by_date,
                   emotion_analysis, todo, results_content, run_result,
                   exit_code, result>>

NextUpload ==
    \/ PostWriteTemp
    \/ PostUpload
    \/ PostRemove

SpecUpload == InitUpload /\ [][NextUpload]_vars

\* ------------------------------------------------------------------ format_analysis_results on its own
\* the variables of the application, untouched when a function of
\* MessageFormatter is applied on its own
idleVars == <<env, config_arg, appVars, todo, calls, disk, caught, run_result, exit_code,
              uploadVars>>

AppIdle ==
    /\ env = [n \in EnvNames |-> "None"]
    /\ config_arg = [given |-> FALSE, d |-> [key \in Keys |-> "None"]]
    /\ config = [key \in Keys |-> "None"]
    /\ debug_mode = FALSE
    /\ analyzer = "None"
    /\ slack_client = "None"
    /\ slack_token = "None"
    /\ todo = <<>>
    /\ calls = <<>>
    /\ disk = [p \in Paths |-> NoFile]
    /\ caught = "none"
    /\ run_result = "none"
    /\ exit_code = -1
    /\ result = "none"
    /\ returned = "none"

\* the orders in which the keys of a dictionary can have been inserted
Orders(D) == {ks \in [1..Cardinality(D) -> D] :
                \A i, j \in 1..Cardinality(D) : i # j => ks[i] # ks[j]}
\* the dictionary holding the mapping f, its keys inserted in the order ks
DictOf(ks, f) == [i \in 1..Len(ks) |-> [key |-> ks[i], val |-> f[ks[i]]]]
\* what an entry of a report can be: a summary or an error marker
Summaries == {<<Lit("POS")>>, ErrorMarker(<<Lit("timeout")>>)}

\* a report over some dates, and the same mapping inserted in some order
InitRender ==
    /\ pc = "r_start"
    /\ AppIdle
    /\ \E D \in SUBSET (1..MaxRenderDates) : \E f \in [D -> Summaries] :
          \E ka \in Orders(D), kb \in Orders(D) :
            /\ emotion_analysis = DictOf(ka, f)
            /\ other_report = DictOf(kb, f)
    /\ conversation_text = <<>>
    /\ conversations_by_date = <<>>
    /\ results_content = <<>>
    /\ other_content = <<>>
    /\ again_content = <<>>
    /\ slack_messages = <<>>
    /\ utc_offset = 0
    /\ lines = <<>>
    /\ drop = 0
    /\ other_bucket = <<>>

RenderReport ==
    /\ pc = "r_start"
    /\ results_content' = format_analysis_results(emotion_analysis)
    /\ pc' = "r_first"
    /\ UNCHANGED <<idleVars, conversation_text, conversations_by_date, emotion_analysis,
                   pureVars>>

RenderOther ==
    /\ pc = "r_first"
    /\ other_content' = format_analysis_results(other_report)
    /\ pc' = "r_other"
    /\ UNCHANGED <<idleVars, conversation_text, conversations_by_date, emotion_analysis,
                   results_content, slack_messages, utc_offset, lines, drop, other_bucket,
                   other_report, again_content>>

RenderAgain ==
    /\ pc = "r_other"
    /\ again_content' = format_analysis_results(emotion_analysis)
    /\ pc' = "r_done"
    /\ UNCHANGED <<idleVars, conversation_text, conversations_by_date, emotion_analysis,
                   results_content, slack_messages, utc_offset, lines, drop, other_bucket,
                   other_report, other_content>>

NextRender ==
    \/ RenderReport
    \/ RenderOther
    \/ RenderAgain

SpecRender == InitRender /\ [][NextRender]_vars

\* ------------------------------------------------------------------ format then parse
\* messages whose timestamp, when present, is numeric: format_slack_messages
\* returns a text for every list of them
RoundTripMsgs == {message \in MsgKinds : message.tsNumeric}

InitRoundTrip ==
    /\ pc = "t_start"
    /\ AppIdle
    /\ slack_messages \in SeqsUpTo(RoundTripMsgs, MaxRoundTrip)
    /\ utc_offset \in TzOffsets
    /\ conversation_text = <<>>
    /\ conversations_by_date = <<>>
    /\ emotion_analysis = <<>>
    /\ results_content = <<>>
    /\ lines = <<>>
    /\ drop = 0
    /\ other_bucket = <<>>
    /\ other_report = <<>>
    /\ other_content = <<>>
    /\ again_content = <<>>

FormatMessages ==
    /\ pc = "t_start"
    /\ conversation_text' = format_slack_messages(slack_messages, utc_offset)
    /\ pc' = "t_formatted"
    /\ UNCHANGED <<idleVars, conversations_by_date, emotion_analysis, results_content,
                   pureVars>>

ParseFormatted ==
    /\ pc = "t_formatted"
    /\ conversations_by_date' = parse_conversations_by_date(conversation_text)
    /\ pc' = "t_parsed"
    /\ UNCHANGED <<idleVars, conversation_text, emotion_analysis, results_content,
                   pureVars>>

NextRoundTrip ==
    \/ FormatMessages
    \/ ParseFormatted

SpecRoundTrip == InitRoundTrip /\ [][NextRoundTrip]_vars

\* ------------------------------------------------------------------ the parser on its own
\* a timestamp the \d{4}-\d{2}-\d{2} of the pattern does not match
BadTs == Lit("(timestamp: 2025-2-30 9:00)")

\* lines of a text: conforming lines on two dates (the second one earlier in
\* the day than the first), an empty text, no marker, a malformed timestamp,
\* a missing colon, and a line with neither speaker nor marker
ParseLineKinds ==
    { <<U, COLON, SP, X, SP, Ts(1, 100)>>,
      <<V, COLON, SP, X, SP, Ts(1, 50)>>,
      <<V, COLON, SP, X, SP, Ts(2, 50)>>,
      <<V, COLON, SP, SP, Ts(2, 50)>>,
      <<U, COLON, SP, X>>,
      <<U, COLON, SP, X, SP, BadTs>>,
      <<U, SP, X, SP, Ts(1, 100)>>,
      <<X>> }

\* the lines without the line at position n
RemoveAt(ls, n) == SubSeq(ls, 1, n - 1) \o SubSeq(ls, n + 1, Len(ls))

InitParse ==
    /\ pc = "p_start"
    /\ AppIdle
    /\ lines \in SeqsUpTo(ParseLineKinds, MaxParseLines)
    /\ drop \in 0..Len(lines)
    /\ conversation_text = Join(lines, <<NL>>)
    /\ conversations_by_date = <<>>
    /\ emotion_analysis = <<>>
    /\ results_content = <<>>
    /\ slack_messages = <<>>
    /\ utc_offset = 0
    /\ other_bucket = <<>>
    /\ other_report = <<>>
    /\ other_content = <<>>
    /\ again_content = <<>>

ParseText ==
    /\ pc = "p_start"
    /\ conversations_by_date' = parse_conversations_by_date(conversation_text)
    /\ pc' = "p_parsed"
    /\ UNCHANGED <<idleVars, conversation_text, emotion_analysis, results_content,
                   pureVars>>

\* the same call on the text without the line at position drop
ParseWithoutLine ==
    /\ pc = "p_parsed"
    /\ drop > 0
    /\ other_bucket' = parse_conversations_by_date(Join(RemoveAt(lines, drop), <<NL>>))
    /\ pc' = "p_both"
    /\ UNCHANGED <<idleVars, conversation_text, conversations_by_date, emotion_analysis,
                   results_content, slack_messages, utc_offset, lines, drop,
                   other_report, other_content, again_content>>

NextParse ==
    \/ ParseText
    \/ ParseWithoutLine

SpecParse == InitParse /\ [][NextParse]_vars

\* ------------------------------------------------------------------ properties
Constructed == pc # "start" /\ caught # "main"
RunReturned == pc \in {"run_returned", "exited"} /\ caught # "main"
SinkOps == {"write_file", "post_message", "upload_file"}
NoCalls(ops) == \A i \in 1..Len(calls) : calls[i].op \notin ops
CountCalls(ops) == Cardinality({i \in 1..Len(calls) : calls[i].op \in ops})
LastCall == calls[Len(calls)]
\* analyze_emotions_by_date has returned
AnalysisDone ==
    \/ pc = "formatted"
    \/ RunReturned /\ analyzer # "None" /\ conversations_by_date # <<>>
\* the dates of the matches of the pattern in a text
MatchedDates(text) == LET ms == FindAll(text, 1) IN {ms[i].d : i \in 1..Len(ms)}

\* C1: after construction, debug_mode is true if and only if at least one of
\* the four configuration values is absent or empty; live mode only when all
\* four are present.
C1_ModeSelection ==
    Constructed =>
        (debug_mode <=> \E key \in Keys : config[key] \in {"None", ""})

C1_Witness ==
    /\ Constructed
    /\ debug_mode
    /\ config["target_channel_id"] = ""
    /\ \A key \in Keys \ {"target_channel_id"} : config[key] = "k"

\* C2: whenever the bucket is empty after the fetch/parse stage, run returns
\* False and no completion call and no sink operation is made in that run.
C2_EmptyBucketFails ==
    (pc \in {"fetched", "analyzing", "formatted", "run_returned", "exited"}
        /\ caught # "main" /\ conversations_by_date = <<>>)
    => /\ pc \notin {"analyzing", "formatted"}
       /\ RunReturned => run_result = "False"
       /\ NoCalls({"completion"} \cup SinkOps)

C2_Witness ==
    /\ pc = "exited"
    /\ analyzer # "None"
    /\ conversation_text # <<>>
    /\ conversations_by_date = <<>>
    /\ run_result = "False"
    /\ exit_code = 1

\* C3: the report has exactly one entry per date of the bucket; a date whose
\* completion call returned maps to the returned text, a date whose call
\* raised maps to the error marker followed by the error text; a failure on
\* one date neither aborts nor alters the processing of another date.
C3_PerDateIsolation ==
    /\ \A i \in 1..Len(calls) :
          calls[i].op = "completion" =>
            /\ calls[i].d \in DictKeys(emotion_analysis)
            /\ DictVal(emotion_analysis, calls[i].d) =
                  (IF calls[i].ok THEN calls[i].out
                   ELSE <<Lit("analysis error: ")>> \o calls[i].out)
    /\ AnalysisDone =>
          /\ DictKeys(emotion_analysis) = DictKeys(conversations_by_date)
          /\ Len(emotion_analysis) = Cardinality(DictKeys(conversations_by_date))
          /\ CountCalls({"completion"}) = Len(conversations_by_date)

C3_Witness ==
    /\ pc = "formatted"
    /\ Len(conversations_by_date) = 2
    /\ \E i, j \in 1..Len(calls) :
          /\ i < j
          /\ calls[i].op = "completion" /\ ~calls[i].ok
          /\ calls[j].op = "completion" /\ calls[j].ok
          /\ DictVal(emotion_analysis, calls[j].d) = calls[j].out

\* the raw-dump case of run: no analyzer, debug mode, non-empty bucket
RawDumpRun ==
    /\ pc = "exited"
    /\ Constructed
    /\ analyzer = "None"
    /\ debug_mode
    /\ conversations_by_date # <<>>

\* C4 as stated: in the raw-dump case run makes no completion call, dumps the
\* raw grouped text to the debug result file and reports success (True, 0).
C4_Original ==
    RawDumpRun =>
        /\ NoCalls({"completion"})
        /\ disk[DEBUG_RESULT_FILE].exists
        /\ disk[DEBUG_RESULT_FILE].data = format_raw_conversations(conversations_by_date)
        /\ run_result = "True"
        /\ exit_code = 0

\* C4 amended: in the raw-dump case run makes no completion call and makes
\* one write of the raw grouped text to the debug result file; when no
\* exception reaches run's handler it returns what that write returned: True
\* (exit 0) when the write succeeded, False (exit 1) when it failed; when the
\* print of the success message raises after a successful write, run returns
\* False (exit 1); after a successful write the file holds the raw text.
C4_RawDump ==
    RawDumpRun =>
        /\ NoCalls({"completion"})
        /\ CountCalls(SinkOps) = 1
        /\ LastCall.op = "write_file" /\ LastCall.arg = DEBUG_RESULT_FILE
        /\ caught = "none" => run_result = Bool(LastCall.ok)
        /\ caught = "run" => LastCall.ok /\ run_result = "False"
        /\ exit_code = (IF run_result = "True" THEN 0 ELSE 1)
        /\ LastCall.ok =>
              /\ disk[DEBUG_RESULT_FILE].exists
              /\ disk[DEBUG_RESULT_FILE].data = format_raw_conversations(conversations_by_date)
              /\ Head(disk[DEBUG_RESULT_FILE].data) = RawHeader

C4_Witness ==
    /\ RawDumpRun
    /\ run_result = "True"
    /\ exit_code = 0
    /\ disk[DEBUG_RESULT_FILE].exists

\* C5: main returns 0 exactly when run returned True and 1 otherwise; an
\* exception at any stage is caught and gives status 1, none leaves run or
\* main; run returns True only if the final sink operation reported success.
C5_ExitStatus ==
    /\ caught = "run" => run_result = "False"
    /\ pc = "exited" =>
          /\ exit_code \in {0, 1}
          /\ exit_code = 0 <=> run_result = "True"
          /\ caught # "none" => exit_code = 1
          /\ slack_client = "SlackClient" => run_result \in {"True", "False"}
          /\ run_result = "True" =>
                /\ calls # <<>>
                /\ LastCall.op \in {"write_file", "post_message"}
                /\ LastCall.ok

C5_Witness ==
    /\ pc = "exited"
    /\ caught = "run"
    /\ LastCall.op = "post_message"
    /\ exit_code = 1

\* C6: in debug mode run makes no remote messaging call and reads and writes
\* only the fixed debug files; in live mode it reads only the channel history
\* and writes only to the target channel, never a debug file.
C6_NoMixedMode ==
    Constructed =>
        IF debug_mode
        THEN \A i \in 1..Len(calls) :
                /\ calls[i].op \in {"read_file", "completion", "write_file"}
                /\ calls[i].op = "read_file" => calls[i].arg = DEBUG_CONVERSATION_FILE
                /\ calls[i].op = "write_file" => calls[i].arg = DEBUG_RESULT_FILE
        ELSE /\ \A i \in 1..Len(calls) :
                /\ calls[i].op \in {"fetch_history", "completion", "post_message"}
                /\ calls[i].op = "fetch_history" => calls[i].arg = "source_channel_id"
                /\ calls[i].op = "post_message" => calls[i].arg = "target_channel_id"
             /\ \A p \in Paths : ~disk[p].exists

C6_Witness ==
    /\ pc = "exited"
    /\ ~debug_mode
    /\ run_result = "True"
    /\ calls[1].op = "fetch_history"
    /\ LastCall.op = "post_message"

\* the write of the temporary file succeeded
TempWritten ==
    \E i \in 1..Len(calls) : calls[i].op = "write_file" /\ calls[i].arg = TempFile /\ calls[i].ok
\* the os.remove of post_as_file_to_slack was called, and what it did
RemoveCalls == {i \in 1..Len(calls) : calls[i].op = "remove_file"}
RemoveRaised == \E i \in RemoveCalls : ~calls[i].ok

\* C7 as stated: when post_as_file_to_slack returns, the temporary file it
\* wrote no longer exists, whether the upload returned True, returned False
\* or the upload call raised.
C7_Original ==
    (pc = "h_returned" /\ TempWritten) => ~disk[TempFile].exists

\* C7 amended: once the temporary file has been written, os.remove is called
\* on it exactly once whatever upload_file did (True, False, or an exception
\* of the upload call, which upload_file catches); when os.remove succeeds
\* the file no longer exists when the operation returns, and the operation
\* returns what upload_file returned; when os.remove raises, the file stays
\* on disk with its content and the operation returns False.
C7_Cleanup ==
    (pc = "h_returned" /\ TempWritten) =>
        /\ Cardinality(RemoveCalls) = 1
        /\ LastCall.op = "remove_file"
        /\ IF RemoveRaised
           THEN /\ disk[TempFile].exists
                /\ disk[TempFile].data = results_content
                /\ returned = "False"
                /\ caught = "handler"
           ELSE /\ ~disk[TempFile].exists
                /\ returned = result
                /\ caught = "none"

C7_Witness ==
    /\ pc = "h_returned"
    /\ TempWritten
    /\ \E i \in 1..Len(calls) : calls[i].op = "upload_file" /\ ~calls[i].ok
    /\ ~RemoveRaised
    /\ returned = "False"
    /\ ~disk[TempFile].exists

\* C8 as stated: if the LLM API key is absent from the configuration the app
\* was constructed with, the app has no analyzer and makes no completion call.
C8_Original ==
    (Constructed /\ ~Truthy(config["openai_api_key"]))
    => analyzer = "None" /\ NoCalls({"completion"})

\* C8 amended: if the LLM API key is absent from the configuration the app
\* was constructed with and from the OPENAI_API_KEY environment variable, the
\* app has no analyzer and makes no completion call, whatever the other three
\* values and the mode.
C8_NoKeyNoAnalyzer ==
    (Constructed /\ ~Truthy(config["openai_api_key"]) /\ ~Truthy(env["OPENAI_API_KEY"]))
    => analyzer = "None" /\ NoCalls({"completion"})

C8_Witness ==
    /\ pc = "exited"
    /\ Constructed
    /\ ~Truthy(config["openai_api_key"])
    /\ \A key \in Keys \ {"openai_api_key"} : Truthy(config[key])
    /\ analyzer = "None"
    /\ conversations_by_date # <<>>
    /\ LastCall.op = "write_file"

\* C9: a run that reaches the sink through the summarizer makes one source
\* read, then one completion call per date key of the bucket, one at a time,
\* then one sink call after the last completion call; nothing is repeated
\* after a failure.
C9_CallOrder ==
    LET n == Len(conversations_by_date) IN
    /\ pc = "formatted" => Len(calls) = n + 1
    /\ (RunReturned /\ analyzer # "None" /\ conversations_by_date # <<>>) =>
          /\ Len(calls) = n + 2
          /\ calls[1].op = (IF debug_mode THEN "read_file" ELSE "fetch_history")
          /\ \A i \in 1..n :
                /\ calls[i + 1].op = "completion"
                /\ calls[i + 1].d = conversations_by_date[i].key
          /\ calls[n + 2].op = (IF debug_mode THEN "write_file" ELSE "post_message")

C9_Witness ==
    /\ pc = "exited"
    /\ Len(conversations_by_date) = 2
    /\ Len(calls) = 4
    /\ ~calls[2].ok
    /\ calls[3].ok
    /\ ~calls[4].ok

\* C10: the date keys of the report are the date keys of the bucket, every
\* key has at least one message line, and a date with no matched line is no
\* key of the bucket, no key of the report and no date heading of the output.
C10_KeyInvariant ==
    /\ \A i \in 1..Len(conversations_by_date) : conversations_by_date[i].val # <<>>
    /\ DictKeys(conversations_by_date) = MatchedDates(conversation_text)
    /\ DictKeys(emotion_analysis) \subseteq DictKeys(conversations_by_date)
    /\ AnalysisDone => DictKeys(emotion_analysis) = DictKeys(conversations_by_date)
    /\ results_content # <<>> =>
          DateHeadings(results_content) = DictKeys(conversations_by_date)

C10_Witness ==
    /\ pc = "exited"
    /\ analyzer # "None"
    /\ results_content # <<>>
    /\ conversations_by_date # <<>>
    /\ \E i \in 1..Len(conversation_text) :
          /\ IsMarker(conversation_text[i])
          /\ conversation_text[i].d \notin DictKeys(conversations_by_date)
          /\ conversation_text[i].d \notin DateHeadings(results_content)

\* C15 as stated: whenever the app has no analyzer it is in debug mode; so
\* a run with a non-empty bucket and no analyzer always takes the raw-dump
\* branch, and the "return False" branch for "no analyzer and not debug
\* mode" is never taken.
C15_Original ==
    /\ (Constructed /\ analyzer = "None") => debug_mode
    /\ (RunReturned /\ caught = "none" /\ analyzer = "None"
            /\ conversations_by_date # <<>>)
       => /\ CountCalls({"write_file"}) = 1
          /\ LastCall.op = "write_file"

\* C15 amended: an app that has no analyzer because no key is configured is
\* in debug mode; an app has no analyzer outside debug mode only when all
\* four values are present, that is when OpenAI(api_key=...) raised
\* ValueError; a run with a non-empty bucket and no analyzer takes the
\* raw-dump branch in debug mode, and outside debug mode it takes the
\* "return False" branch: no sink call, run returns False, exit status 1.
C15_NoAnalyzerImpliesDebug ==
    /\ (Constructed /\ analyzer = "None" /\ ~Truthy(config["openai_api_key"]))
       => debug_mode
    /\ (Constructed /\ analyzer = "None" /\ ~debug_mode)
       => \A key \in Keys : Truthy(config[key])
    /\ (RunReturned /\ analyzer = "None" /\ conversations_by_date # <<>>)
       => IF debug_mode
          THEN /\ CountCalls({"write_file"}) = 1
               /\ LastCall.op = "write_file"
               /\ results_content = format_raw_conversations(conversations_by_date)
          ELSE /\ NoCalls(SinkOps \cup {"completion"})
               /\ caught = "none"
               /\ run_result = "False"
               /\ pc = "exited" => exit_code = 1

C15_Witness ==
    /\ pc = "exited"
    /\ analyzer = "None"
    /\ ~debug_mode
    /\ conversations_by_date # <<>>
    /\ LastCall.op = "fetch_history"
    /\ run_result = "False"
    /\ exit_code = 1

\* C16 as stated: with a non-empty bucket and an analyzer, what run returns
\* is the boolean the sink operation returned, whatever subset of the
\* completion calls raised; run returns True (exit status 0) when the sink
\* succeeds.
C16_Original ==
    (RunReturned /\ analyzer # "None" /\ conversations_by_date # <<>>)
    => /\ CountCalls(SinkOps) = 1
       /\ LastCall.op \in SinkOps
       /\ run_result = Bool(LastCall.ok)

\* C16 amended: with a non-empty bucket and an analyzer, run calls the sink
\* once, whatever subset of the completion calls raised; when no exception
\* reaches run's handler it returns the boolean the sink returned; when the
\* sink call raises, or the print of the success message raises after the
\* sink succeeded, it returns False; a run in which every completion call
\* failed still calls the sink once with a report made only of error markers
\* and returns True (exit status 0) when the sink succeeds and the message
\* is printed.
C16_SinkDecidesOutcome ==
    (RunReturned /\ analyzer # "None" /\ conversations_by_date # <<>>)
    => /\ CountCalls(SinkOps) = 1
       /\ LastCall.op \in SinkOps
       /\ caught = "none" => run_result = Bool(LastCall.ok)
       /\ caught = "run" => run_result = "False"
       /\ pc = "exited" => exit_code = (IF run_result = "True" THEN 0 ELSE 1)

C16_Witness ==
    /\ pc = "exited"
    /\ Len(conversations_by_date) = 2
    /\ CountCalls({"completion"}) = 2
    /\ \A i \in 1..Len(calls) : calls[i].op = "completion" => ~calls[i].ok
    /\ \A i \in 1..Len(emotion_analysis) :
          Head(emotion_analysis[i].val) = Lit("analysis error: ")
    /\ CountCalls(SinkOps) = 1
    /\ LastCall.ok
    /\ run_result = "True"
    /\ exit_code = 0

\* the date tokens of a rendered text, in order
DateTokens(content) == SelectSeq(content, LAMBDA x : x.k = "date")
RECURSIVE BlockLengths(_, _)
BlockLengths(D, report) ==
    IF D = {} THEN 0
    ELSE LET d == CHOOSE x \in D : TRUE
         IN 4 + Len(DictVal(report, d)) + BlockLengths(D \ {d}, report)

\* C11: the rendering is the header line followed, for each date in ascending
\* order, by a blank line, the date line and the summary text; it depends on
\* the date-to-summary mapping alone: the same mapping inserted in another
\* order, and the same report rendered again, give the same text.
C11_RenderDeterministic ==
    pc = "r_done" =>
        LET out == results_content
            dts == DateTokens(out)
        IN /\ out[1] = ResultsHeader
           /\ Len(out) = 1 + BlockLengths(DictKeys(emotion_analysis), emotion_analysis)
           /\ {dts[i].d : i \in 1..Len(dts)} = DictKeys(emotion_analysis)
           /\ \A i \in 1..(Len(dts) - 1) : dts[i].d < dts[i + 1].d
           /\ \A i \in 1..Len(out) :
                out[i].k = "date" =>
                  LET v == DictVal(emotion_analysis, out[i].d) IN
                    /\ out[i - 1] = DateLabel
                    /\ out[i - 2] \in {ResultsHeader, NL}
                    /\ out[i + 1] = NL
                    /\ SubSeq(out, i + 2, i + 1 + Len(v)) = v
                    /\ out[i + 2 + Len(v)] = NL
           /\ other_content = out
           /\ again_content = out

C11_Witness ==
    /\ pc = "r_done"
    /\ KeySeq(emotion_analysis) = <<3, 1, 2>>
    /\ KeySeq(other_report) = <<2, 3, 1>>
    /\ DictVal(emotion_analysis, 1) # DictVal(emotion_analysis, 2)
    /\ other_content = results_content
    /\ DateTokens(results_content) = <<DateTok(1), DateTok(2), DateTok(3)>>

\* the number of lines a bucket holds for a date
LinesOn(bucket, d) == IF d \in DictKeys(bucket) THEN Len(DictVal(bucket, d)) ELSE 0
\* the messages that carry 'user' and 'ts' and whose timestamp falls on date d
EligibleOn(messages, offset, d) ==
    Cardinality({i \in 1..Len(messages) :
                    /\ messages[i].hasUser
                    /\ messages[i].hasTs
                    /\ (messages[i].ts + offset) \div SecondsPerDay = d})
\* the dates the timestamps of the messages can fall on
RoundTripDates == 0..4

\* C12: parse_conversations_by_date(format_slack_messages(messages)) holds,
\* for each date, as many lines as there are messages that carry 'user' and
\* 'ts' and whose timestamp falls on that date; a message missing 'user' or
\* 'ts' contributes no line.
C12_RoundTrip ==
    pc = "t_parsed" =>
        \A d \in RoundTripDates :
            LinesOn(conversations_by_date, d) = EligibleOn(slack_messages, utc_offset, d)

\* a line of the form SPEAKER: text (timestamp: ...): a speaker id at the
\* start, a colon, white space, a text that holds no marker, white space and
\* the marker at the end of the line
Conforms(line) ==
    LET j == UpperRunEnd(line, 1)
        n == Len(line)
    IN /\ j > 1
       /\ j < n
       /\ line[j] = COLON
       /\ SpaceRunEnd(line, j + 1) > j + 1
       /\ IsMarker(line[n])
       /\ IsSpace(line[n - 1])
       /\ \A i \in 1..(n - 1) : ~IsMarker(line[i])
\* the text of a conforming line is not blank
NonBlank(line) == SpaceRunEnd(line, UpperRunEnd(line, 1) + 1) < Len(line)
\* the line holds a character of a speaker id directly followed by a colon
\* and then white space or the end of the line
HasSpeakerPrefix(line) ==
    \E i \in 1..(Len(line) - 1) :
        /\ IsUpper(line[i])
        /\ line[i + 1] = COLON
        /\ (i + 2 <= Len(line) => IsSpace(line[i + 2]))
HasMarker(line) == \E i \in 1..Len(line) : IsMarker(line[i])
\* the line at position drop does not conform, every other line conforms
\* with a text that is not blank
OnlyDroppedLineIsOff ==
    /\ pc = "p_both"
    /\ ~Conforms(lines[drop])
    /\ \A i \in (1..Len(lines)) \ {drop} : Conforms(lines[i]) /\ NonBlank(lines[i])

\* C13 as the spec states it: whatever the other lines are, the buckets of a
\* text are the buckets of the text without a non-conforming line.
C13_Original ==
    (pc = "p_both" /\ ~Conforms(lines[drop])) => other_bucket = conversations_by_date

\* C13: in a text whose other lines all conform with a text that is not
\* blank, a non-conforming line is omitted (the buckets are those of the text
\* without it) when it holds no speaker prefix, or when it is the last line
\* and holds no timestamp marker; a non-conforming line that holds a speaker
\* prefix and is followed by a conforming line is not omitted: the buckets
\* differ from those of the text without it.
C13_OmittedUnlessPrefixed ==
    OnlyDroppedLineIsOff =>
        /\ (\/ ~HasSpeakerPrefix(lines[drop])
            \/ (drop = Len(lines) /\ ~HasMarker(lines[drop])))
           => other_bucket = conversations_by_date
        /\ (HasSpeakerPrefix(lines[drop]) /\ drop < Len(lines))
           => other_bucket # conversations_by_date

C13_Witness ==
    /\ OnlyDroppedLineIsOff
    /\ Len(lines) = 3
    /\ drop = 2
    /\ lines[2] = <<U, SP, X, SP, Ts(1, 100)>>
    /\ KeySeq(conversations_by_date) = <<2, 1>>
    /\ other_bucket = conversations_by_date

\* the entry the parser makes of a conforming line
LineEntry(line) ==
    LET j == UpperRunEnd(line, 1)
    IN SubSeq(line, 1, j - 1) \o <<COLON, SP>> \o Strip(SubSeq(line, j + 1, Len(line) - 1))
\* the entries of the conforming lines ls whose marker carries date d, in order
RECURSIVE LineEntriesOn(_, _)
LineEntriesOn(ls, d) ==
    IF ls = <<>> THEN <<>>
    ELSE (IF Head(ls)[Len(Head(ls))].d = d THEN <<LineEntry(Head(ls))>> ELSE <<>>)
            \o LineEntriesOn(Tail(ls), d)
\* the entries of the matches ms whose marker carries date d, in order
RECURSIVE MatchEntriesOn(_, _)
MatchEntriesOn(ms, d) ==
    IF ms = <<>> THEN <<>>
    ELSE (IF Head(ms).d = d
          THEN <<Head(ms).user \o <<COLON, SP>> \o Strip(Head(ms).body)>>
          ELSE <<>>)
            \o MatchEntriesOn(Tail(ms), d)
RECURSIVE TotalEntries(_)
TotalEntries(bucket) ==
    IF bucket = <<>> THEN 0 ELSE Len(Head(bucket).val) + TotalEntries(Tail(bucket))

\* C14: the bucket of a date holds, in the order of the matches in the text,
\* the entry "speaker: trimmed body" of every match whose own marker carries
\* that date, and nothing else; an entry is a speaker id, ": " and a body
\* without white space at either end; for a text of conforming lines the
\* bucket of a date is the entries of the lines of that date, without their
\* markers, in the order of the lines.
C14_BucketOrder ==
    pc \in {"p_parsed", "p_both"} =>
        LET ms == FindAll(conversation_text, 1)
            b == conversations_by_date
        IN /\ DictKeys(b) = {ms[i].d : i \in 1..Len(ms)}
           /\ Len(b) = Cardinality(DictKeys(b))
           /\ TotalEntries(b) = Len(ms)
           /\ \A n \in 1..Len(b) :
                /\ b[n].val = MatchEntriesOn(ms, b[n].key)
                /\ \A i \in 1..Len(b[n].val) :
                     LET entry == b[n].val[i]
                         j == UpperRunEnd(entry, 1)
                         body == SubSeq(entry, j + 2, Len(entry))
                     IN /\ j > 1
                        /\ SubSeq(entry, j, j + 1) = <<COLON, SP>>
                        /\ body = Strip(body)
           /\ (\A i \in 1..Len(lines) : Conforms(lines[i]) /\ NonBlank(lines[i]))
              => \A n \in 1..Len(b) : b[n].val = LineEntriesOn(lines, b[n].key)

C14_Witness ==
    /\ pc = "p_parsed"
    /\ lines = << <<U, COLON, SP, X, SP, Ts(1, 100)>>,
                  <<V, COLON, SP, X, SP, Ts(2, 50)>>,
                  <<V, COLON, SP, X, SP, Ts(1, 50)>> >>
    /\ KeySeq(conversations_by_date) = <<1, 2>>
    /\ DictVal(conversations_by_date, 1) = << <<U, COLON, SP, X>>, <<V, COLON, SP, X>> >>
    /\ DictVal(conversations_by_date, 2) = << <<V, COLON, SP, X>> >>

====
